---- MODULE Spec2Model ----
(***************************************************************************)
(* Zomato Feedback Analyzer (src/main.py): the review store, the product   *)
(* catalog with its running rating totals, the Submit Review handler and   *)
(* the two views of the Streamlit script.                                  *)
(*                                                                         *)
(* A Python string is a tuple of one-character strings, so that the regex  *)
(* of valid_email, str.strip, str.lower and the word-boundary counting of  *)
(* analyze_sentiment are computed character by character.                  *)
(* A float that is a quotient of two small integers is kept exactly: the   *)
(* result of calculate_average is kept in tenths (43 stands for 4.3), the  *)
(* pandas mean as the pair <<sum, count>>.                                 *)
(***************************************************************************)
EXTENDS Integers, Sequences, FiniteSets, TLC

VARIABLES
  db,          \* st.session_state.db: the list of review records
  products,    \* st.session_state.products: name -> attributes and totals
  menu,        \* the sidebar radio: "Feedback" or "Analytics"
  msg,         \* the message the last user action made the script show
               \* (st.error, st.warning, st.success, st.info), "" for none
  classified,  \* the text last passed to analyze_sentiment
  sentiment    \* the pair (sentiment, color) it returned, <<>> before any call

vars == <<db, products, menu, msg, classified, sentiment>>

\* ------------------------------------------------------------ bounds

\* Cap on len(st.session_state.db); the program has none.
MaxReviews == 3

\* calculate_average is also checked on every count 1..MaxCount.
MaxCount == 4

\* The texts given to analyze_sentiment alone are built of up to MaxPieces
\* pieces.
MaxPieces == 3

\* st.slider("Rate the Item", 1, 5, 3)
MinRating == 1
MaxRating == 5

\* ------------------------------------------------------------ characters

LowerLetters == <<"a","b","c","d","e","f","g","h","i","j","k","l","m",
                  "n","o","p","q","r","s","t","u","v","w","x","y","z">>
UpperLetters == <<"A","B","C","D","E","F","G","H","I","J","K","L","M",
                  "N","O","P","Q","R","S","T","U","V","W","X","Y","Z">>

Letters == { LowerLetters[i] : i \in 1..26 } \cup { UpperLetters[i] : i \in 1..26 }

Digits == {"0","1","2","3","4","5","6","7","8","9"}

\* [a-zA-Z]
IsAlpha(ch) == ch \in Letters

\* [0-9]
IsDigit(ch) == ch \in Digits

\* \w on ASCII text: letters, digits and the underscore
IsWordChar(ch) == IsAlpha(ch) \/ IsDigit(ch) \/ ch = "_"

\* \s on ASCII text (and the characters str.strip removes)
IsSpace(ch) == ch \in {" ", "\t", "\n", "\r", "\f"}

\* [a-zA-Z0-9._%+-]
IsLocalChar(ch) == IsAlpha(ch) \/ IsDigit(ch) \/ ch \in {".", "_", "%", "+", "-"}

\* [a-zA-Z0-9.-]
IsDomainChar(ch) == IsAlpha(ch) \/ IsDigit(ch) \/ ch \in {".", "-"}

\* str.lower on one ASCII character
LowerOf == [ch \in { UpperLetters[i] : i \in 1..26 } |->
              LowerLetters[CHOOSE i \in 1..26 : UpperLetters[i] = ch]]

LowerChar(ch) == IF ch \in DOMAIN LowerOf THEN LowerOf[ch] ELSE ch

\* str.lower
lower(text) == [i \in DOMAIN text |-> LowerChar(text[i])]

\* ------------------------------------------------------------ valid_email

\* re.match(r"^[a-zA-Z0-9._%+-]+@[a-zA-Z0-9.-]+\.[a-zA-Z]{2,}$", email):
\* a non-empty local part up to position at - 1, "@" at position at, a
\* non-empty domain part up to position dot - 1, "." at position dot, and
\* two or more letters from dot + 1 to the end of the string.
valid_email(email) ==
  \E at \in DOMAIN email :
    /\ email[at] = "@"
    /\ 1 < at
    /\ \A i \in 1..(at - 1) : IsLocalChar(email[i])
    /\ \E dot \in (at + 2)..(Len(email) - 2) :
         /\ email[dot] = "."
         /\ \A i \in (at + 1)..(dot - 1) : IsDomainChar(email[i])
         /\ \A i \in (dot + 1)..Len(email) : IsAlpha(email[i])

\* ------------------------------------------------------------ calculate_average

\* round(total_score / count, 1), in tenths.  Python rounds the double
\* total_score / count correctly, ties to even; a quotient of integers is
\* a tie exactly when it ends in .25 or .75 (count below 20), which a
\* double holds exactly.
RoundTenths(n, d) ==
  LET q == (10 * n) \div d
      r == (10 * n) % d
  IN  IF 2 * r < d THEN q
      ELSE IF 2 * r > d THEN q + 1
      ELSE IF q % 2 = 0 THEN q ELSE q + 1

\* Variant: int(10 * total_score / count) / 10 in place of round.
calculate_average_truncating(total_score, count) ==
  IF count = 0 THEN 0 ELSE (10 * total_score) \div count

calculate_average(total_score, count) ==
  IF count = 0 THEN 0 ELSE RoundTenths(total_score, count)

\* ------------------------------------------------------------ analyze_sentiment

positive_words ==
  << <<"d","e","l","i","c","i","o","u","s">>,
     <<"g","o","o","d">>,
     <<"w","o","n","d","e","r","f","u","l">>,
     <<"h","a","p","p","y">>,
     <<"b","e","s","t">>,
     <<"t","a","s","t","y">>,
     <<"l","o","v","e">> >>

negative_words ==
  << <<"b","a","d">>,
     <<"w","o","r","s","t">>,
     <<"b","i","t","t","e","r">>,
     <<"s","a","l","t","y">>,
     <<"r","e","g","r","e","t">>,
     <<"s","l","o","w">>,
     <<"c","o","l","d">>,
     <<"d","i","s","a","p","p","o","i","n","t","i","n","g">> >>

KeepsChar(ch) == IsWordChar(ch) \/ IsSpace(ch)

\* re.sub(r"[^\w\s]", "", text.lower())
normalize(text) == SelectSeq(lower(text), KeepsChar)

\* \b just before position k of text: exactly one of the characters on its
\* two sides is a word character (the ends of the string count as non-word)
WordBoundary(text, k) ==
  LET left  == k > 1 /\ IsWordChar(text[k - 1])
      right == k <= Len(text) /\ IsWordChar(text[k])
  IN  left # right

\* Variant: the pattern without its two \b.
MatchAt_substring(w, text, i) ==
  /\ i + Len(w) - 1 <= Len(text)
  /\ \A k \in 1..Len(w) : text[i + k - 1] = w[k]

\* rf"\b{w}\b" matches at position i of text
MatchAt(w, text, i) ==
  /\ i + Len(w) - 1 <= Len(text)
  /\ \A k \in 1..Len(w) : text[i + k - 1] = w[k]
  /\ WordBoundary(text, i)
  /\ WordBoundary(text, i + Len(w))

\* len(re.findall(rf"\b{w}\b", text)) scanning from position i: the matches
\* are taken left to right and do not overlap
RECURSIVE findall_count(_, _, _)
findall_count(w, text, i) ==
  IF i + Len(w) - 1 > Len(text) THEN 0
  ELSE IF MatchAt(w, text, i)
       THEN 1 + findall_count(w, text, i + Len(w))
       ELSE findall_count(w, text, i + 1)

\* sum(len(re.findall(rf"\b{w}\b", text)) for w in words), words[k..]
RECURSIVE sum_matches(_, _, _)
sum_matches(words, text, k) ==
  IF k > Len(words) THEN 0
  ELSE findall_count(words[k], text, 1) + sum_matches(words, text, k + 1)

\* The returned pair (label, color); the labels carry a trailing emoji in
\* the source, left out here.
pick_label(pos, neg) ==
  IF pos > neg THEN <<"Positive", "#2E7D32">>
  ELSE IF neg > pos THEN <<"Negative", "#D32F2F">>
  ELSE <<"Neutral", "#FFA000">>

analyze_sentiment(text) ==
  LET t   == normalize(text)
      pos == sum_matches(positive_words, t, 1)
      neg == sum_matches(negative_words, t, 1)
  IN  pick_label(pos, neg)

\* ------------------------------------------------------------ init_session

ProductNames == {"Pizza", "Burger", "French Fries", "Nuggets"}

InitialProducts ==
  [p \in ProductNames |->
     CASE p = "Pizza" ->
            [ts |-> 0, c |-> 0, type |-> "Breads", price |-> 549,
             vnv |-> "Veg/Non-Veg", data |-> "Cheese, Mushroom, Chicken"]
       [] p = "Burger" ->
            [ts |-> 0, c |-> 0, type |-> "Breads", price |-> 349,
             vnv |-> "Veg/Non-Veg", data |-> "Cheese, Onion, Patty"]
       [] p = "French Fries" ->
            [ts |-> 0, c |-> 0, type |-> "Snacks", price |-> 249,
             vnv |-> "Veg", data |-> "Salted, Roasted"]
       [] p = "Nuggets" ->
            [ts |-> 0, c |-> 0, type |-> "Snacks", price |-> 199,
             vnv |-> "Veg/Non-Veg", data |-> "Crispy Chicken/Veg"]]

\* ------------------------------------------------------------ the form's inputs

\* st.text_input("Email Address"): three addresses the pattern accepts and
\* one it refuses (a one-letter top-level domain)
EmailInputs ==
  { <<"a","@","b",".","c","o">>,
    <<"c","@","d",".","i","n">>,
    <<"x","_","y","@","z","-","w",".","o","r","g">>,
    <<"a","@","b",".","c">> }

\* st.selectbox("Select Product", list(st.session_state.products.keys())):
\* two of the four keys
ProductInputs == {"Pizza", "Nuggets"}

\* st.slider("Rate the Item", 1, 5, 3): the two ends of the slider
RatingInputs == {MinRating, MaxRating}

\* st.text_area("Write your feedback"): a text with content and a blank one
ReviewInputs ==
  { <<" ","G","o","o","d","!","\n">>,
    <<" ","\n">> }

\* ------------------------------------------------------------ feedback_section

MsgNone         == ""
MsgInvalidEmail == "Please enter a valid email address."
MsgDuplicate    == "You already submitted a review for this product."
MsgEmpty        == "Review cannot be empty."
MsgThanks       == "Thank you for your feedback!"
MsgNoReviews    == "No reviews submitted yet."

\* str.strip
RECURSIVE lstrip(_)
lstrip(s) == IF s = <<>> \/ ~IsSpace(Head(s)) THEN s ELSE lstrip(Tail(s))

RECURSIVE rstrip(_)
rstrip(s) ==
  IF s = <<>> \/ ~IsSpace(s[Len(s)]) THEN s ELSE rstrip(SubSeq(s, 1, Len(s) - 1))

strip(s) == rstrip(lstrip(s))

\* Variant: only the newest review is compared.
already_reviewed_last_only(reviews, email, product) ==
  /\ reviews # <<>>
  /\ reviews[Len(reviews)].email = email
  /\ reviews[Len(reviews)].prod = product

\* any(r for r in st.session_state.db
\*     if r["email"] == email and r["prod"] == product)
already_reviewed(reviews, email, product) ==
  \E i \in DOMAIN reviews : reviews[i].email = email /\ reviews[i].prod = product

\* Variant: the chain without its duplicate branch.
submit_outcome_without_duplicate_rule(reviews, email, product, text) ==
  IF ~valid_email(email) THEN MsgInvalidEmail
  ELSE IF strip(text) = <<>> THEN MsgEmpty
  ELSE MsgThanks

\* Variant: the blank-text branch before the duplicate branch.
submit_outcome_empty_first(reviews, email, product, text) ==
  IF ~valid_email(email) THEN MsgInvalidEmail
  ELSE IF strip(text) = <<>> THEN MsgEmpty
  ELSE IF already_reviewed(reviews, email, product) THEN MsgDuplicate
  ELSE MsgThanks

\* The if / elif / else chain of the Submit Review handler: the message it
\* shows (st.error, st.warning, st.warning, st.success).
submit_outcome(reviews, email, product, text) ==
  IF ~valid_email(email) THEN MsgInvalidEmail
  ELSE IF already_reviewed(reviews, email, product) THEN MsgDuplicate
  ELSE IF strip(text) = <<>> THEN MsgEmpty
  ELSE MsgThanks

\* Variant: the count grows by the rating.
add_rating_counting_stars(catalog, product, rating) ==
  [catalog EXCEPT ![product].ts = @ + rating, ![product].c = @ + rating]

\* Variant: ["ts"] = rating in place of += rating.
add_rating_overwriting(catalog, product, rating) ==
  [catalog EXCEPT ![product].ts = rating, ![product].c = @ + 1]

\* st.session_state.products[product]["ts"] += rating
\* st.session_state.products[product]["c"] += 1
add_rating(catalog, product, rating) ==
  [catalog EXCEPT ![product].ts = @ + rating, ![product].c = @ + 1]

\* Variant: the slider's position, counted from 0, as the rating.
new_review_zero_based_rating(reviews, email, product, rating, text, label) ==
  [email |-> email, prod |-> product, rating |-> rating - 1, review |-> text,
   sentiment |-> label[1], color |-> label[2], time |-> Len(reviews) + 1]

\* The dict appended to st.session_state.db; label is the pair returned by
\* analyze_sentiment.  time.time() is kept as the position of the record:
\* the handler sleeps a second after each append, so the timestamps grow
\* with the order of insertion.
new_review(reviews, email, product, rating, text, label) ==
  [email |-> email, prod |-> product, rating |-> rating, review |-> text,
   sentiment |-> label[1], color |-> label[2], time |-> Len(reviews) + 1]

\* Variant: db.insert(0, record).
store_review_at_front(reviews, record) == <<record>> \o reviews

\* st.session_state.db.append(record)
store_review(reviews, record) == Append(reviews, record)

\* Variant: the totals are updated before the checks.
SubmitReview_counting_before_checks(email, product, rating, text) ==
  /\ menu = "Feedback"
  /\ LET outcome == submit_outcome(db, email, product, text)
     IN  /\ msg' = outcome
         /\ products' = add_rating(products, product, rating)
         /\ IF outcome = MsgThanks
            THEN /\ Len(db) < MaxReviews
                 /\ classified' = text
                 /\ sentiment' = analyze_sentiment(text)
                 /\ db' = store_review(db, new_review(db, email,
                                         product, rating, text, sentiment'))
            ELSE UNCHANGED <<db, classified, sentiment>>
  /\ UNCHANGED menu

\* if st.button("Submit Review"): ... with the form holding these inputs.
\* The button is on the Feedback view only.  msg is the message of the
\* branch taken; the accepted branch ends with st.rerun(), which draws the
\* Feedback view again and changes neither collection.
SubmitReview(email, product, rating, text) ==
  /\ menu = "Feedback"
  /\ LET outcome == submit_outcome(db, email, product, text)
     IN  /\ msg' = outcome
         /\ IF outcome = MsgThanks
            THEN /\ Len(db) < MaxReviews
                 /\ classified' = text
                 /\ sentiment' = analyze_sentiment(text)
                 /\ products' = add_rating(products, product, rating)
                 /\ db' = store_review(db, new_review(db, email,
                                         product, rating, text, sentiment'))
            ELSE UNCHANGED <<db, products, classified, sentiment>>
  /\ UNCHANGED menu

\* ------------------------------------------------------------ analytics_section

\* df.groupby("prod")["rating"]: the sum and the number of the ratings of
\* the first k reviews that are for product
RECURSIVE rating_sum(_, _, _)
rating_sum(reviews, product, k) ==
  IF k = 0 THEN 0
  ELSE rating_sum(reviews, product, k - 1)
       + (IF reviews[k].prod = product THEN reviews[k].rating ELSE 0)

RECURSIVE rating_count(_, _, _)
rating_count(reviews, product, k) ==
  IF k = 0 THEN 0
  ELSE rating_count(reviews, product, k - 1)
       + (IF reviews[k].prod = product THEN 1 ELSE 0)

\* avg_df = df.groupby("prod")["rating"].mean(): one row for each product
\* that has a review, its mean kept as <<sum, count>>
avg_df(reviews) ==
  [p \in { reviews[i].prod : i \in DOMAIN reviews } |->
     << rating_sum(reviews, p, Len(reviews)),
        rating_count(reviews, p, Len(reviews)) >>]

\* ------------------------------------------------------------ main

\* menu = st.sidebar.radio("Navigation", ["Feedback", "Analytics"]): the
\* script runs again with the other view; analytics_section shows st.info
\* and returns when the review store is empty
SwitchView(view) ==
  /\ view # menu
  /\ menu' = view
  /\ msg' = IF view = "Analytics" /\ db = <<>> THEN MsgNoReviews ELSE MsgNone
  /\ UNCHANGED <<db, products, classified, sentiment>>

Init ==
  /\ db = <<>>
  /\ products = InitialProducts
  /\ menu = "Feedback"
  /\ msg = MsgNone
  /\ classified = <<>>
  /\ sentiment = <<>>

Submit ==
  \E email \in EmailInputs, product \in ProductInputs,
     rating \in RatingInputs, text \in ReviewInputs :
       SubmitReview(email, product, rating, text)

Switch == \E view \in {"Feedback", "Analytics"} : SwitchView(view)

Next == Submit \/ Switch

Spec == Init /\ [][Next]_vars

\* ------------------------------------------------------------ analyze_sentiment alone

\* The pieces the texts are built of: keywords in both cases, white space,
\* punctuation the normalisation removes, and word characters that make a
\* keyword part of a longer word.
Pieces ==
  { <<"g","o","o","d">>,
    <<"G","o","o","d">>,
    <<"b","e","s","t">>,
    <<"b","a","d">>,
    <<"B","A","D">>,
    <<"w","o","r","s","t">>,
    <<" ">>,
    <<"\n">>,
    <<",">>,
    <<"_">>,
    <<"s">> }

RECURSIVE Concat(_, _)
Concat(parts, k) == IF k = 0 THEN <<>> ELSE Concat(parts, k - 1) \o parts[k]

SentimentTexts ==
  { Concat(parts, Len(parts)) :
      parts \in UNION { [1..n -> Pieces] : n \in 0..MaxPieces } }

\* sentiment, color = analyze_sentiment(review)
Classify ==
  /\ sentiment = <<>>
  /\ sentiment' = analyze_sentiment(classified)
  /\ UNCHANGED <<db, products, menu, msg, classified>>

InitSentiment ==
  /\ db = <<>>
  /\ products = InitialProducts
  /\ menu = "Feedback"
  /\ msg = MsgNone
  /\ classified \in SentimentTexts
  /\ sentiment = <<>>

NextSentiment == Classify

SpecSentiment == InitSentiment /\ [][NextSentiment]_vars

\* ------------------------------------------------------------ properties

Abs(x) == IF x < 0 THEN -x ELSE x

\* A review by this email for this product is in the review store.
InStore(email, product) ==
  \E i \in DOMAIN db : db[i].email = email /\ db[i].prod = product

\* The positions of the reviews for a product and the sum of their ratings.
ReviewsFor(product) == { i \in DOMAIN db : db[i].prod = product }

RECURSIVE SumRatings(_)
SumRatings(positions) ==
  IF positions = {} THEN 0
  ELSE LET i == CHOOSE j \in positions : TRUE
       IN  db[i].rating + SumRatings(positions \ {i})

Rejections == {MsgInvalidEmail, MsgDuplicate, MsgEmpty}

\* C1: in every reachable state the review store holds at most one review
\* for each (email, product) pair.
C1_OneReviewPerPair ==
  \A i \in DOMAIN db : \A j \in DOMAIN db :
    (db[i].email = db[j].email /\ db[i].prod = db[j].prod) => i = j

\* A duplicate has just been refused and the store holds two reviews by one
\* email (for different products).
C1_Witness ==
  /\ msg = MsgDuplicate
  /\ \E i \in DOMAIN db : \E j \in DOMAIN db :
       i # j /\ db[i].email = db[j].email

\* C2: an accepted Submit Review for product p with rating r adds r to p's
\* sum and 1 to p's count, appends exactly one record carrying the submitted
\* email, product, rating and text to the end of the review store, and
\* leaves every other product and every stored review unchanged.
C2_AcceptedEffect ==
  [][\A email \in EmailInputs : \A product \in ProductInputs :
     \A rating \in RatingInputs : \A text \in ReviewInputs :
       (msg' = MsgThanks /\ SubmitReview(email, product, rating, text)) =>
         /\ products'[product].ts = products[product].ts + rating
         /\ products'[product].c = products[product].c + 1
         /\ DOMAIN products' = DOMAIN products
         /\ \A q \in DOMAIN products \ {product} : products'[q] = products[q]
         /\ Len(db') = Len(db) + 1
         /\ SubSeq(db', 1, Len(db)) = db
         /\ db'[Len(db')].email = email
         /\ db'[Len(db')].prod = product
         /\ db'[Len(db')].rating = rating
         /\ db'[Len(db')].review = text]_vars

\* A review has just been accepted into a store that already held reviews
\* for both products.
C2_Witness ==
  /\ msg = MsgThanks
  /\ Len(db) >= 3
  /\ \E i \in DOMAIN db : db[i].prod # db[Len(db)].prod

\* C3: once a review by email e for product p is in the review store, every
\* Submit Review with the same e and p is rejected, whatever its rating and
\* text: nothing is stored and the message is a rejection.
C3_DuplicateRejected ==
  [][\A email \in EmailInputs : \A product \in ProductInputs :
       InStore(email, product) =>
         \A rating \in RatingInputs : \A text \in ReviewInputs :
           \/ (msg' \in Rejections /\ db' = db /\ products' = products)
           \/ ~SubmitReview(email, product, rating, text)]_vars

\* A duplicate has just been refused while the store is full of reviews.
C3_Witness ==
  /\ msg = MsgDuplicate
  /\ Len(db) >= 3

\* C4: a rejected Submit Review (invalid email, duplicate, blank text)
\* leaves the review store and every product's sum and count as they were.
C4_RejectionNoEffect ==
  [][msg' \in Rejections => (db' = db /\ products' = products)]_vars

\* A blank review has just been refused with reviews in the store.
C4_Witness ==
  /\ msg = MsgEmpty
  /\ db # <<>>

\* C5: Submit Review reports exactly one outcome, the reason of the first
\* rule that fails in the order email format, duplicate, blank text, and
\* accepts (storing the review) if and only if all three rules pass: in no
\* reachable state can a Submit Review step with any inputs end otherwise.
C5_FirstFailingRule ==
  \A email \in EmailInputs : \A product \in ProductInputs :
  \A text \in ReviewInputs :
    LET emailOk   == valid_email(email)
        duplicate == InStore(email, product)
        blank     == \A i \in DOMAIN text : IsSpace(text[i])
        first     == IF ~emailOk THEN MsgInvalidEmail
                     ELSE IF duplicate THEN MsgDuplicate
                     ELSE IF blank THEN MsgEmpty
                     ELSE MsgThanks
    IN  /\ first = MsgThanks <=> (emailOk /\ ~duplicate /\ ~blank)
        /\ \A rating \in RatingInputs :
             ~ENABLED (/\ SubmitReview(email, product, rating, text)
                       /\ ~(msg' = first /\ (first = MsgThanks <=> db' # db)))

\* An invalid email has just been refused with reviews in the store.
C5_Witness ==
  /\ msg = MsgInvalidEmail
  /\ db # <<>>

\* C6: every stored review has an integer rating from 1 to 5 and a product
\* that is a key of the catalog, and the catalog's keys are the four
\* products of the initial state.
C6_RatingAndProductRange ==
  /\ \A i \in DOMAIN db :
       /\ db[i].rating \in MinRating..MaxRating
       /\ db[i].prod \in DOMAIN products
  /\ DOMAIN products = DOMAIN InitialProducts
  /\ Cardinality(DOMAIN products) = 4

\* The store holds a review rated 1 and a review rated 5.
C6_Witness ==
  /\ \E i \in DOMAIN db : db[i].rating = MinRating
  /\ \E i \in DOMAIN db : db[i].rating = MaxRating

\* C7 as stated: for every product the analytics view's average (the mean
\* of avg_df) equals round(sum / count, 1) and equals the average the
\* catalog shows, calculate_average of the running sum and count.
C7_AnalyticsEqualsCatalog ==
  \A p \in DOMAIN avg_df(db) :
    LET mean == avg_df(db)[p]
    IN  /\ 10 * mean[1] = RoundTenths(mean[1], mean[2]) * mean[2]
        /\ 10 * mean[1]
             = calculate_average(products[p].ts, products[p].c) * mean[2]

\* The reviews rated 5, 3 and 4 of the example.
ExampleReviews ==
  << [prod |-> "Pizza", rating |-> 5], [prod |-> "Pizza", rating |-> 3],
     [prod |-> "Pizza", rating |-> 4] >>

\* C7 amended: the analytics view shows the unrounded mean of the product's
\* ratings; the catalog's average is that mean rounded to one decimal, so
\* the two differ by at most 0.05 and are equal when the mean has at most
\* one decimal, as for the ratings 5, 3, 4 (4.0 in both).
C7_CatalogIsRoundedMean ==
  /\ \A p \in DOMAIN avg_df(db) :
       LET mean    == avg_df(db)[p]
           catalog == calculate_average(products[p].ts, products[p].c)
       IN  /\ mean[2] > 0
           /\ 2 * Abs(10 * mean[1] - catalog * mean[2]) <= mean[2]
           /\ (10 * mean[1]) % mean[2] = 0 => 10 * mean[1] = catalog * mean[2]
  /\ avg_df(ExampleReviews)["Pizza"] = <<12, 3>>
  /\ calculate_average(12, 3) = 40

\* A product whose mean has more than one decimal.
C7_Witness ==
  \E p \in DOMAIN avg_df(db) : (10 * avg_df(db)[p][1]) % avg_df(db)[p][2] # 0

\* The keywords that are whole words of the text: the text is cut at white
\* space, punctuation is dropped, letters are lower-cased.  word is the
\* word read so far, k the next position.
RECURSIVE KeywordWords(_, _, _, _)
KeywordWords(text, k, word, keywords) ==
  LET hit == IF \E i \in DOMAIN keywords : keywords[i] = word THEN 1 ELSE 0
  IN  IF k > Len(text) THEN hit
      ELSE IF IsSpace(text[k])
           THEN hit + KeywordWords(text, k + 1, <<>>, keywords)
      ELSE IF IsWordChar(text[k])
           THEN KeywordWords(text, k + 1, Append(word, LowerChar(text[k])), keywords)
      ELSE KeywordWords(text, k + 1, word, keywords)

\* C8: analyze_sentiment returns Positive when the text has more whole-word
\* positive keywords than negative ones (lower-cased, punctuation stripped),
\* Negative when it has fewer, Neutral when as many, and each label comes
\* with its one color.
C8_LabelByKeywordCount ==
  sentiment # <<>> =>
    LET pos == KeywordWords(classified, 1, <<>>, positive_words)
        neg == KeywordWords(classified, 1, <<>>, negative_words)
    IN  /\ pos > neg => sentiment = <<"Positive", "#2E7D32">>
        /\ pos < neg => sentiment = <<"Negative", "#D32F2F">>
        /\ pos = neg => sentiment = <<"Neutral", "#FFA000">>

\* A text with an upper-case keyword followed by punctuation has been
\* classified as Negative.
C8_Witness ==
  /\ sentiment # <<>>
  /\ sentiment[1] = "Negative"
  /\ \E i \in DOMAIN classified : classified[i] = "B"
  /\ \E i \in DOMAIN classified : classified[i] = ","

\* C9: the average is the sum divided by the count rounded to one decimal
\* (within 0.05 of the quotient), 0 when the count is 0; average(0, 0) = 0
\* and average(12, 4) = 3.0; for every product state the result lies
\* between 1 and 5 when the count is positive.
C9_AverageRounded ==
  /\ calculate_average(0, 0) = 0
  /\ calculate_average(12, 4) = 30
  /\ \A count \in 1..MaxCount :
       \A total \in (MinRating * count)..(MaxRating * count) :
         LET avg == calculate_average(total, count)
         IN  /\ 2 * Abs(10 * total - avg * count) <= count
             /\ avg \in (10 * MinRating)..(10 * MaxRating)
  /\ \A p \in DOMAIN products :
       LET avg == calculate_average(products[p].ts, products[p].c)
       IN  IF products[p].c = 0 THEN avg = 0
           ELSE /\ 2 * Abs(10 * products[p].ts - avg * products[p].c)
                     <= products[p].c
                /\ avg \in (10 * MinRating)..(10 * MaxRating)

\* One product without reviews (average 0) and one whose quotient had to be
\* rounded.
C9_Witness ==
  /\ \E p \in DOMAIN products : products[p].c = 0
  /\ \E p \in DOMAIN products :
       /\ products[p].c > 0
       /\ (10 * products[p].ts) % products[p].c # 0

\* C10: each product's review count is the number of reviews in the store
\* for that product and its sum is the sum of their ratings.
C10_TotalsMatchStore ==
  \A p \in DOMAIN products :
    /\ products[p].c = Cardinality(ReviewsFor(p))
    /\ products[p].ts = SumRatings(ReviewsFor(p))

\* The analytics view is shown with two reviews for one product and one for
\* another in the store.
C10_Witness ==
  /\ menu = "Analytics"
  /\ \E p \in DOMAIN products : products[p].c = 2
  /\ \E p \in DOMAIN products : products[p].c = 1

====
